---------------------------- MODULE Spec2Model ----------------------------
(***************************************************************************)
(* Extension / helper composition layer of the kelvin code editor:        *)
(* frontend/src/utilities/EditorUtils.ts (inArrayable, arrayify,           *)
(* getExtension, appendExtensions, appendHelpers, the two result mergers)  *)
(* and the editor session of frontend/src/components/Editor.vue.           *)
(*                                                                         *)
(* A JavaScript string is a sequence of one-symbol strings.  A JavaScript  *)
(* value is a record [t, v]: t is its type tag, v its payload.             *)
(***************************************************************************)
EXTENDS Integers, Sequences, FiniteSets, TLC

VARIABLES
    extensions,   \* the `extensions` prop of the Editor component
    filename,     \* the `filename` model of the component (filename.value)
    theme,        \* currentTheme.value
    editor,       \* the CodeMirror editor of the session: [init, opts]
    helperTable,  \* CodeMirror's global helper registry
    lastCall      \* the library call made by the step just taken, if any

vars == <<extensions, filename, theme, editor, helperTable, lastCall>>

-----------------------------------------------------------------------------
\* Bounds of the model.

\* longest filename
MaxNameLen == 3
\* longest Extension list
MaxExts == 2
\* longest `helpers` array of one Extension
MaxHelpers == 2
\* longest list of per-callback results handed to a merger
MaxReturns == 3
\* longest list of findings / suggestions one callback returns
MaxList == 1

-----------------------------------------------------------------------------
\* Strings.

\* the alphabet of filenames: a lower-case letter, its upper case, the dot
Chars == {"c", "C", "."}

RECURSIVE StringsOfLen(_)
StringsOfLen(n) ==
    IF n = 0 THEN {<<>>}
    ELSE {Append(s, c) : s \in StringsOfLen(n - 1), c \in Chars}

StringsUpTo(n) == UNION {StringsOfLen(k) : k \in 0..n}

Filenames == StringsUpTo(MaxNameLen)

\* String.prototype.toLowerCase, symbol by symbol
LowerChar(c) == IF c = "C" THEN "c" ELSE c

ToLowerCase(s) == [i \in 1..Len(s) |-> LowerChar(s[i])]

\* String.prototype.split('.'): the parts between the dots, never empty
RECURSIVE Split(_)
Split(s) ==
    IF \A i \in 1..Len(s) : s[i] # "."
    THEN <<s>>
    ELSE LET d == CHOOSE i \in 1..Len(s) :
                      s[i] = "." /\ \A j \in 1..(i - 1) : s[j] # "."
         IN  <<SubSeq(s, 1, d - 1)>> \o Split(SubSeq(s, d + 1, Len(s)))

-----------------------------------------------------------------------------
\* JavaScript values.

Undefined == [t |-> "undefined", v |-> <<>>]
Str(s) == [t |-> "string", v |-> s]
Arr(a) == [t |-> "array", v |-> a]
Obj(o) == [t |-> "object", v |-> o]
Bool(b) == [t |-> "boolean", v |-> b]

\* x === y, for strings and undefined
StrictEq(x, y) == x.t = y.t /\ x.v = y.v

\* x !== undefined
IsDefined(x) == x.t # "undefined"

\* ToBoolean(x), as `if (x)` tests it
Truthy(x) ==
    CASE x.t = "undefined" -> FALSE
      [] x.t = "string" -> x.v # <<>>
      [] x.t = "boolean" -> x.v
      [] OTHER -> TRUE

\* Array.prototype.includes on an array of strings
ArrayIncludes(a, value) == \E i \in 1..Len(a) : StrictEq(a[i], value)

\* a variant of inArrayable with a seeded fault: an array is matched by its
\* first item only
InArrayableFirstOnly(arrayable, value) ==
    IF arrayable.t = "array"
    THEN Len(arrayable.v) > 0 /\ StrictEq(arrayable.v[1], value)
    ELSE StrictEq(arrayable, value)

InArrayable(arrayable, value) ==
    IF arrayable.t = "array"
    THEN \E i \in 1..Len(arrayable.v) : StrictEq(arrayable.v[i], value)
    ELSE StrictEq(arrayable, value)

Arrayify(arrayable) ==
    IF arrayable.t = "array" THEN arrayable.v ELSE <<arrayable>>

\* a variant of getExtension with a seeded fault: no toLowerCase()
GetExtensionKeepCase(name) ==
    IF ~Truthy(name) THEN Undefined
    ELSE LET parts == Split(name.v)
         IN  Str(parts[Len(parts)])

GetExtension(name) ==
    IF ~Truthy(name) THEN Undefined
    ELSE LET parts == Split(name.v)
         IN  Str(ToLowerCase(parts[Len(parts)]))

-----------------------------------------------------------------------------
\* Extension Applicator: appendExtensions.

\* a variant of Include with a seeded fault: the conditions are tested for
\* truthiness, as createWrapperFunction tests them
IncludeTruthy(extension, fname, fileExt) ==
    IF Truthy(extension.fileName)
    THEN InArrayable(extension.fileName, fname)
    ELSE IF Truthy(extension.extension)
         THEN InArrayable(extension.extension, fileExt)
         ELSE FALSE

\* the value of `include` for one Extension of the loop
Include(extension, fname, fileExt) ==
    IF IsDefined(extension.fileName)
    THEN InArrayable(extension.fileName, fname)
    ELSE IF IsDefined(extension.extension)
         THEN InArrayable(extension.extension, fileExt)
         ELSE FALSE

\* the loop over the Extensions, from index i on, with the accumulators
RECURSIVE ExtensionLoop(_, _, _, _, _, _)
ExtensionLoop(exts, i, fname, fileExt, gutters, spellcheck) ==
    IF i > Len(exts) THEN [gutters |-> gutters, spellcheck |-> spellcheck]
    ELSE LET extension == exts[i]
         IN  IF ~Include(extension, fname, fileExt)
             THEN ExtensionLoop(exts, i + 1, fname, fileExt, gutters, spellcheck)
             ELSE ExtensionLoop(exts, i + 1, fname, fileExt,
                      IF Truthy(extension.gutters)
                      THEN gutters \o Arrayify(extension.gutters)
                      ELSE gutters,
                      IF IsDefined(extension.spellCheck)
                      THEN spellcheck \/ extension.spellCheck.v
                      ELSE spellcheck)

\* a variant of appendExtensions with a seeded fault: the gutters are pushed
\* onto the editor's present gutters
AppendExtensionsKeepGutters(opts, exts, fname) ==
    LET acc == ExtensionLoop(exts, 1, fname, GetExtension(fname), <<>>, FALSE)
    IN  [opts EXCEPT !.gutters = @ \o acc.gutters,
                     !.lint = TRUE,
                     !.spellcheck = acc.spellcheck]

\* the editor's options after appendExtensions(editor, exts, fname)
AppendExtensions(opts, exts, fname) ==
    LET acc == ExtensionLoop(exts, 1, fname, GetExtension(fname), <<>>, FALSE)
    IN  [opts EXCEPT !.gutters = acc.gutters,
                     !.lint = TRUE,
                     !.spellcheck = acc.spellcheck]

\* the editor's options as the editor has them after each of the three
\* setOption calls of appendExtensions: 'gutters', 'lint', 'spellcheck'.
\* setOption hands the new value to the editor at once, so this is what the
\* editor and a handler it runs during the call work with
AppendExtensionsTrace(opts, exts, fname) ==
    LET acc == ExtensionLoop(exts, 1, fname, GetExtension(fname), <<>>, FALSE)
        first == [opts EXCEPT !.gutters = acc.gutters]
        second == [first EXCEPT !.lint = TRUE]
        third == [second EXCEPT !.spellcheck = acc.spellcheck]
    IN  <<first, second, third>>

-----------------------------------------------------------------------------
\* Result Merger.

\* how a call ends: it returns a value or it throws
Return(value) == [outcome |-> "return", value |-> value]
Throw(error) == [outcome |-> "throw", value |-> [t |-> "error", v |-> <<error>>]]

\* returns.filter((ret) => ret !== undefined)
FilterDefined(returns) == SelectSeq(returns, IsDefined)

\* lists.reduce((a, b) => a.concat(b), [])
RECURSIVE ReduceConcat(_, _)
ReduceConcat(acc, lists) ==
    IF lists = <<>> THEN acc
    ELSE ReduceConcat(acc \o Head(lists), Tail(lists))

\* a variant of LintHelperMerge with a seeded fault: (a, b) => b.concat(a)
RECURSIVE ReduceConcatSwapped(_, _)
ReduceConcatSwapped(acc, lists) ==
    IF lists = <<>> THEN acc
    ELSE ReduceConcatSwapped(Head(lists) \o acc, Tail(lists))

LintHelperMergeSwapped(returns) ==
    LET filtered == FilterDefined(returns)
    IN  Return(Arr(ReduceConcatSwapped(<<>>,
                   [k \in 1..Len(filtered) |-> filtered[k].v])))

LintHelperMerge(returns) ==
    LET filtered == FilterDefined(returns)
    IN  Return(Arr(ReduceConcat(<<>>,
                   [k \in 1..Len(filtered) |-> filtered[k].v])))

\* a variant of HintHelperMerge with a seeded fault: from/to are read from
\* returns[0], before the filter
HintHelperMergeUnfiltered(returns) ==
    LET filtered == FilterDefined(returns)
        list == ReduceConcat(<<>>, [k \in 1..Len(filtered) |-> filtered[k].v.list])
    IN  IF returns = <<>> \/ ~IsDefined(returns[1])
        THEN Throw("TypeError")
        ELSE Return(Obj([list |-> list,
                         from |-> returns[1].v.from,
                         to |-> returns[1].v.to]))

\* filtered[0].from of an empty `filtered` reads a property of undefined
HintHelperMerge(returns) ==
    LET filtered == FilterDefined(returns)
        list == ReduceConcat(<<>>, [k \in 1..Len(filtered) |-> filtered[k].v.list])
    IN  IF filtered = <<>>
        THEN Throw("TypeError")
        ELSE Return(Obj([list |-> list,
                         from |-> filtered[1].v.from,
                         to |-> filtered[1].v.to]))

HelperTypes == {"lint", "hint"}

HelperMergers(type, returns) ==
    IF type = "lint" THEN LintHelperMerge(returns) ELSE HintHelperMerge(returns)

-----------------------------------------------------------------------------
\* Helper Registry: appendHelpers.

\* the fileType keys helpers are registered under
FileTypes == {"yaml", "python"}

\* a Helper record
Helper(type, fileType, callback) ==
    [type |-> type, fileType |-> fileType, callback |-> callback]

\* the closure createWrapperFunction(func) returns inside the loop body of
\* `extension`: it keeps the normalised names and func; undefined when neither
\* condition of the Extension is truthy
CreateWrapperFunction(extension, func) ==
    IF Truthy(extension.fileName)
    THEN [t |-> "function",
          v |-> [by |-> "fileName", names |-> Arrayify(extension.fileName),
                 func |-> func]]
    ELSE IF Truthy(extension.extension)
         THEN [t |-> "function",
               v |-> [by |-> "extension", names |-> Arrayify(extension.extension),
                      func |-> func]]
         ELSE Undefined

\* the guard of a wrapped callback, for the value of editor.getOption('filename')
GuardPasses(wrapped, optFilename) ==
    IF wrapped.v.by = "fileName"
    THEN ArrayIncludes(wrapped.v.names, optFilename)
    ELSE ArrayIncludes(wrapped.v.names, GetExtension(optFilename))

\* a variant of the wrapper with a seeded fault: what the underlying callback
\* raises is caught and the sentinel returned in its place
CallWrappedSwallow(wrapped, optFilename, behaviour) ==
    IF wrapped.t = "undefined"
    THEN [ran |-> FALSE, end |-> Throw("TypeError")]
    ELSE IF ~GuardPasses(wrapped, optFilename)
         THEN [ran |-> FALSE, end |-> Return(Undefined)]
         ELSE [ran |-> TRUE,
               end |-> IF behaviour.outcome = "throw"
                       THEN Return(Undefined) ELSE behaviour]

\* one call cb.apply(this, args) of a group's entry; `behaviour` is how the
\* underlying callback ends if it is run
CallWrapped(wrapped, optFilename, behaviour) ==
    IF wrapped.t = "undefined"
    THEN [ran |-> FALSE, end |-> Throw("TypeError")]
    ELSE IF ~GuardPasses(wrapped, optFilename)
         THEN [ran |-> FALSE, end |-> Return(Undefined)]
         ELSE [ran |-> TRUE, end |-> behaviour]

\* the `helpers` list of the loop body
HelpersOf(extension) ==
    IF extension.helpers.t = "array"
    THEN extension.helpers.v
    ELSE <<extension.helpers.v>>

\* index of the group of `type` in groupedhelper, 0 when there is none
GroupIndex(grouped, type) ==
    IF \E g \in 1..Len(grouped) : grouped[g].type = type
    THEN CHOOSE g \in 1..Len(grouped) :
             grouped[g].type = type /\ \A h \in 1..(g - 1) : grouped[h].type # type
    ELSE 0

\* index of fileType among the keys of group.helpers, 0 when it is no key
KeyIndex(helpers, fileType) ==
    IF \E e \in 1..Len(helpers) : helpers[e].fileType = fileType
    THEN CHOOSE e \in 1..Len(helpers) : helpers[e].fileType = fileType
    ELSE 0

\* a variant of AddHelper with a seeded fault: the list of the key is
\* assigned, not pushed to
AddHelperOverwrite(grouped, helper, wrapped) ==
    LET withGroup == IF GroupIndex(grouped, helper.type) = 0
                     THEN Append(grouped, [type |-> helper.type, helpers |-> <<>>])
                     ELSE grouped
        index == GroupIndex(withGroup, helper.type)
        group == withGroup[index]
        withKey == IF KeyIndex(group.helpers, helper.fileType) = 0
                   THEN Append(group.helpers,
                               [fileType |-> helper.fileType, callbacks |-> <<>>])
                   ELSE group.helpers
        e == KeyIndex(withKey, helper.fileType)
    IN  [withGroup EXCEPT ![index].helpers =
            [withKey EXCEPT ![e].callbacks = <<wrapped>>]]

\* the body of `for (const helper of helpers)`: groupedhelper afterwards.
\* group.helpers is the sequence of its [fileType, callbacks] entries in
\* insertion order, which is the order Object.entries gives
AddHelper(grouped, helper, wrapped) ==
    LET withGroup == IF GroupIndex(grouped, helper.type) = 0
                     THEN Append(grouped, [type |-> helper.type, helpers |-> <<>>])
                     ELSE grouped
        index == GroupIndex(withGroup, helper.type)
        group == withGroup[index]
        withKey == IF KeyIndex(group.helpers, helper.fileType) = 0
                   THEN Append(group.helpers,
                               [fileType |-> helper.fileType, callbacks |-> <<>>])
                   ELSE group.helpers
        e == KeyIndex(withKey, helper.fileType)
    IN  [withGroup EXCEPT ![index].helpers =
            [withKey EXCEPT ![e].callbacks = Append(@, wrapped)]]

\* the helpers of one Extension, from index j on
RECURSIVE HelperLoop(_, _, _, _)
HelperLoop(grouped, extension, helpers, j) ==
    IF j > Len(helpers) THEN grouped
    ELSE HelperLoop(AddHelper(grouped, helpers[j],
                        CreateWrapperFunction(extension, helpers[j].callback)),
                    extension, helpers, j + 1)

\* the first loop of appendHelpers, from Extension i on: groupedhelper
RECURSIVE GroupHelpers(_, _, _)
GroupHelpers(grouped, exts, i) ==
    IF i > Len(exts) THEN grouped
    ELSE IF ~Truthy(exts[i].helpers)
         THEN GroupHelpers(grouped, exts, i + 1)
         ELSE GroupHelpers(HelperLoop(grouped, exts[i], HelpersOf(exts[i]), 1),
                           exts, i + 1)

\* the registry before any registration
NoHelpers ==
    [key \in HelperTypes \X FileTypes |-> [registered |-> FALSE, callbacks |-> <<>>]]

\* a variant of the registration with a seeded fault: the callbacks are added
\* to those the table already holds for the pair
RegisterHelperAccumulate(table, type, fileType, callbacks) ==
    [table EXCEPT ![<<type, fileType>>] =
        [registered |-> TRUE, callbacks |-> @.callbacks \o callbacks]]

\* CodeMirror.registerHelper(type, fileType, dispatcher): the dispatcher is
\* the closure over `callbacks` and the merger of `type`
RegisterHelper(table, type, fileType, callbacks) ==
    [table EXCEPT ![<<type, fileType>>] =
        [registered |-> TRUE, callbacks |-> callbacks]]

\* the entries of one group, from entry e on
RECURSIVE RegisterEntries(_, _, _, _)
RegisterEntries(table, type, helpers, e) ==
    IF e > Len(helpers) THEN table
    ELSE RegisterEntries(
             RegisterHelper(table, type, helpers[e].fileType, helpers[e].callbacks),
             type, helpers, e + 1)

\* the second loop of appendHelpers, from group g on
RECURSIVE RegisterGroups(_, _, _)
RegisterGroups(table, grouped, g) ==
    IF g > Len(grouped) THEN table
    ELSE RegisterGroups(
             RegisterEntries(table, grouped[g].type, grouped[g].helpers, 1),
             grouped, g + 1)

\* the registry after appendHelpers(exts)
AppendHelpers(table, exts) ==
    RegisterGroups(table, GroupHelpers(<<>>, exts, 1), 1)

-----------------------------------------------------------------------------
\* The editor session: Editor.vue.

\* getTheme
GetTheme(value) == IF value = "dark" THEN Str(<<"dracula">>) ELSE Str(<<"default">>)

\* toMode: the map has the keys c, h, cpp, md, yml, yaml, py, htm, html, of
\* which the alphabet of the filenames can spell "c"
ToMode(fname) ==
    IF StrictEq(GetExtension(fname), Str(<<"c">>))
    THEN Str(<<"text/x-csrc">>)
    ELSE Undefined

\* the session before the editor element exists
NoEditor ==
    [init |-> FALSE,
     opts |-> [filename |-> Undefined, mode |-> Undefined, theme |-> Undefined,
               gutters |-> <<>>, lint |-> FALSE, spellcheck |-> FALSE]]

NoCall == [fn |-> "none"]

\* the options CodeMirror.fromTextArea is given (lint is the prop's default)
InitialOptions(fname, th) ==
    [filename |-> fname, mode |-> ToMode(fname), theme |-> GetTheme(th),
     gutters |-> <<Str(<<"CodeMirror-lint-markers">>)>>,
     lint |-> FALSE, spellcheck |-> TRUE]

\* the watcher of [filename, currentTheme]: the editor's options afterwards.
\* fName is a string, so the branch fName !== undefined is the one taken; the
\* lint option is true after appendExtensions, so it is toggled off and on
WatchHandler(opts, exts, fName, th) ==
    LET themed == [opts EXCEPT !.theme = GetTheme(th)]
        moded == [themed EXCEPT !.mode = ToMode(fName)]
        applied == AppendExtensions(moded, exts, fName)
    IN  IF applied.lint THEN [applied EXCEPT !.lint = TRUE] ELSE applied

\* what a run of the inner watcher does besides its result: the library
\* functions it calls, the options appendExtensions is entered with and the
\* options after each of its setOption calls
HandlerCall(opts, exts, fName, th) ==
    LET themed == [opts EXCEPT !.theme = GetTheme(th)]
        moded == [themed EXCEPT !.mode = ToMode(fName)]
    IN  [fn |-> "handler", calls |-> <<"appendExtensions">>, before |-> moded,
         seen |-> AppendExtensionsTrace(moded, exts, fName)]

\* a run of watch(editorElement) that returns at `if (editor)`
NoHandlerCall(opts) ==
    [fn |-> "handler", calls |-> <<>>, before |-> opts, seen |-> <<>>]

\* a variant of watch(editorElement) with a seeded fault: no `if (editor)
\* return`, every run builds the editor and registers the helpers
MountEditorAgain ==
    /\ lastCall' = [HandlerCall(InitialOptions(filename, theme),
                                extensions, filename, theme)
                       EXCEPT !.calls = <<"appendHelpers">> \o @]
    /\ helperTable' = AppendHelpers(helperTable, extensions)
    /\ editor' = [init |-> TRUE,
                  opts |-> WatchHandler(InitialOptions(filename, theme),
                                        extensions, filename, theme)]
    /\ UNCHANGED <<extensions, filename, theme>>

\* watch(editorElement): the first run creates the editor with the filename
\* of that moment as its 'filename' option, registers the helpers and runs
\* the inner watcher at once; a later run returns at `if (editor)`
MountEditor ==
    IF editor.init
    THEN /\ lastCall' = NoHandlerCall(editor.opts)
         /\ UNCHANGED <<extensions, filename, theme, editor, helperTable>>
    ELSE /\ lastCall' = [HandlerCall(InitialOptions(filename, theme),
                                     extensions, filename, theme)
                            EXCEPT !.calls = <<"appendHelpers">> \o @]
         /\ helperTable' = AppendHelpers(helperTable, extensions)
         /\ editor' = [init |-> TRUE,
                       opts |-> WatchHandler(InitialOptions(filename, theme),
                                             extensions, filename, theme)]
         /\ UNCHANGED <<extensions, filename, theme>>

\* the parent changes the filename model; the inner watcher exists only once
\* the editor does
SetFilename(f) ==
    /\ f # filename
    /\ filename' = f
    /\ editor' = IF editor.init
                 THEN [editor EXCEPT !.opts = WatchHandler(@, extensions, f, theme)]
                 ELSE editor
    /\ lastCall' = IF editor.init
                   THEN HandlerCall(editor.opts, extensions, f, theme)
                   ELSE NoCall
    /\ UNCHANGED <<extensions, theme, helperTable>>

\* the user switches the theme
SetTheme(th) ==
    /\ th # theme
    /\ theme' = th
    /\ editor' = IF editor.init
                 THEN [editor EXCEPT !.opts = WatchHandler(@, extensions, filename, th)]
                 ELSE editor
    /\ lastCall' = IF editor.init
                   THEN HandlerCall(editor.opts, extensions, filename, th)
                   ELSE NoCall
    /\ UNCHANGED <<extensions, filename, helperTable>>

\* positions in the document
Pos(line, ch) == [line |-> line, ch |-> ch]

\* a hint result
Hint(list, from, to) == Obj([list |-> list, from |-> from, to |-> to])

\* how an underlying helper callback may end when the widget runs it
Behaviours(type) ==
    IF type = "lint"
    THEN {Return(Arr(<<>>)), Return(Arr(<<"m1">>)), Return(Arr(<<"m2">>)),
          Throw("CallbackError")}
    ELSE {Return(Hint(<<"a">>, Pos(0, 0), Pos(0, 1))),
          Return(Hint(<<"b">>, Pos(1, 0), Pos(1, 2))),
          Throw("CallbackError")}

\* a variant of the dispatcher with a seeded fault: the sentinels are dropped
\* from the list handed to the merger
DispatchOutcomeSkipSentinels(type, fileType, callbacks, optFilename, behaviour) ==
    LET n == Len(callbacks)
        calls == [k \in 1..n |-> CallWrapped(callbacks[k], optFilename, behaviour[k])]
        thrown == {k \in 1..n : calls[k].end.outcome = "throw"}
        first == IF thrown = {} THEN 0
                 ELSE CHOOSE k \in thrown : \A l \in thrown : k <= l
        invoked == IF first = 0 THEN n ELSE first
        returns == FilterDefined(
                       [k \in 1..(IF first = 0 THEN n ELSE first - 1) |-> calls[k].end.value])
    IN  [fn |-> "dispatch", type |-> type, fileType |-> fileType,
         tested |-> optFilename,
         ran |-> [k \in 1..invoked |-> calls[k].ran],
         returns |-> returns,
         end |-> IF first = 0 THEN HelperMergers(type, returns) ELSE calls[first].end]

\* the dispatcher registered for (type, fileType), run by the widget:
\* callbacks.map(...) stops at the first call that throws, else the merger runs
DispatchOutcome(type, fileType, callbacks, optFilename, behaviour) ==
    LET n == Len(callbacks)
        calls == [k \in 1..n |-> CallWrapped(callbacks[k], optFilename, behaviour[k])]
        thrown == {k \in 1..n : calls[k].end.outcome = "throw"}
        first == IF thrown = {} THEN 0
                 ELSE CHOOSE k \in thrown : \A l \in thrown : k <= l
        invoked == IF first = 0 THEN n ELSE first
        returns == [k \in 1..(IF first = 0 THEN n ELSE first - 1) |-> calls[k].end.value]
    IN  [fn |-> "dispatch", type |-> type, fileType |-> fileType,
         tested |-> optFilename,
         ran |-> [k \in 1..invoked |-> calls[k].ran],
         returns |-> returns,
         end |-> IF first = 0 THEN HelperMergers(type, returns) ELSE calls[first].end]

Dispatch(type, fileType) ==
    /\ editor.init
    /\ helperTable[<<type, fileType>>].registered
    /\ LET callbacks == helperTable[<<type, fileType>>].callbacks
       IN  \E behaviour \in [1..Len(callbacks) -> Behaviours(type)] :
               lastCall' = DispatchOutcome(type, fileType, callbacks,
                                           editor.opts.filename, behaviour)
    /\ UNCHANGED <<extensions, filename, theme, editor, helperTable>>

\* the host calls the exported getExtension on the active filename
GetExtensionCall ==
    /\ lastCall' = [fn |-> "getExtension", arg |-> filename,
                    end |-> Return(GetExtension(filename))]
    /\ UNCHANGED <<extensions, filename, theme, editor, helperTable>>

\* a Result Merger applied to a list of per-callback results, once
MergeCall(type, returns) ==
    /\ lastCall' = [fn |-> "merge", type |-> type, returns |-> returns,
                    end |-> HelperMergers(type, returns)]
    /\ UNCHANGED <<extensions, filename, theme, editor, helperTable>>

-----------------------------------------------------------------------------
\* Inputs.

\* the sequences over S of length at most n
SeqsUpTo(S, n) == UNION {[1..k -> S] : k \in 0..n}

\* an Extension record; an absent field is undefined
Ext(fileName, extension, gutters, helpers, spellCheck) ==
    [fileName |-> fileName, extension |-> extension, gutters |-> gutters,
     helpers |-> helpers, spellCheck |-> spellCheck]

\* every declared Helper has a callback function of its own: the callback of
\* the j-th Helper of the i-th Extension is named <<i, j>>
TagHelpers(i, helpers) ==
    CASE helpers.t = "object" -> Obj([helpers.v EXCEPT !.callback = <<i, 1>>])
      [] helpers.t = "array" ->
            Arr([j \in 1..Len(helpers.v) |->
                    [helpers.v[j] EXCEPT !.callback = <<i, j>>]])
      [] OTHER -> helpers

Tag(exts) ==
    [i \in 1..Len(exts) |-> [exts[i] EXCEPT !.helpers = TagHelpers(i, @)]]

\* the values of a fileName / extension field: absent, a string (the empty
\* one too), a list of at most two strings
MatchStrings == {Str(<<>>), Str(<<"c">>), Str(<<"C">>)}

MatchValues ==
    {Undefined} \cup MatchStrings \cup {Arr(a) : a \in SeqsUpTo(MatchStrings, 2)}

\* one Extension with a gutter, spellCheck and a lint helper, under every
\* pair of conditions
MatchLists ==
    {Tag(<<Ext(fn, ex, Str(<<"G1">>), Obj(Helper("lint", "yaml", <<>>)), Bool(TRUE))>>) :
        fn \in MatchValues, ex \in MatchValues}

\* the values of a `helpers` field over three (type, fileType) pairs
HelperShapes ==
    LET kinds == {Helper("lint", "yaml", <<>>), Helper("hint", "yaml", <<>>),
                  Helper("lint", "python", <<>>)}
    IN  {Undefined} \cup {Obj(h) : h \in kinds}
            \cup {Arr(a) : a \in SeqsUpTo(kinds, MaxHelpers)}

\* the Extension lists whose Extensions differ in their helpers
GroupLists ==
    {Tag(l) : l \in SeqsUpTo({Ext(Undefined, Str(<<"c">>), Undefined, h, Undefined) :
                                 h \in HelperShapes}, MaxExts)}

\* the Extensions of the sessions
SessionExts ==
    {Ext(Undefined, Str(<<"c">>), Str(<<"G1">>),
         Obj(Helper("lint", "yaml", <<>>)), Bool(TRUE)),
     Ext(Arr(<<Str(<<"C", ".", "c">>)>>), Undefined,
         Arr(<<Str(<<"G2">>), Str(<<"G3">>)>>),
         Arr(<<Helper("hint", "yaml", <<>>), Helper("lint", "yaml", <<>>)>>),
         Bool(FALSE)),
     Ext(Undefined, Arr(<<Str(<<"c">>)>>), Undefined,
         Obj(Helper("hint", "yaml", <<>>)), Undefined),
     Ext(Undefined, Undefined, Str(<<"G4">>),
         Obj(Helper("lint", "python", <<>>)), Bool(TRUE)),
     Ext(Str(<<>>), Str(<<"c">>), Str(<<"G5">>), Undefined, Undefined)}

SessionLists == {Tag(l) : l \in SeqsUpTo(SessionExts, MaxExts)}

\* the filenames of the sessions: none, "c", "C.c", "c."
SessionFiles == {Str(<<>>), Str(<<"c">>), Str(<<"C", ".", "c">>), Str(<<"c", ".">>)}

Themes == {"light", "dark"}

\* what one wrapped callback may hand to a merger
Results(type) ==
    IF type = "lint"
    THEN {Undefined} \cup {Arr(l) : l \in SeqsUpTo({"m1", "m2"}, MaxList)}
    ELSE {Undefined} \cup
         {Hint(l, a[1], a[2]) :
             l \in SeqsUpTo({"a", "b"}, MaxList),
             a \in {<<Pos(0, 0), Pos(0, 1)>>, <<Pos(1, 0), Pos(1, 2)>>}}

ReturnsLists(type) == SeqsUpTo(Results(type), MaxReturns)

-----------------------------------------------------------------------------
\* Specifications.

\* an editor session over the session Extension lists
Init ==
    /\ extensions \in SessionLists
    /\ filename \in SessionFiles
    /\ theme = "light"
    /\ editor = NoEditor
    /\ helperTable = NoHelpers
    /\ lastCall = NoCall

Next ==
    \/ MountEditor
    \/ \E f \in SessionFiles : SetFilename(f)
    \/ \E th \in Themes : SetTheme(th)
    \/ \E type \in HelperTypes, fileType \in FileTypes : Dispatch(type, fileType)

Spec == Init /\ [][Next]_vars

\* one Extension under every pair of conditions, mounted on every filename
InitMatch ==
    /\ extensions \in MatchLists
    /\ filename \in {Str(f) : f \in Filenames}
    /\ theme = "light"
    /\ editor = NoEditor
    /\ helperTable = NoHelpers
    /\ lastCall = NoCall

NextMatch ==
    \/ MountEditor
    \/ \E type \in HelperTypes, fileType \in FileTypes : Dispatch(type, fileType)
    \/ GetExtensionCall

SpecMatch == InitMatch /\ [][NextMatch]_vars

\* the Extensions of the repeated registrations: helpers for hint/yaml and
\* lint/yaml, for hint/yaml, and for lint/python
RegisterExts ==
    {Ext(Arr(<<Str(<<"C", ".", "c">>)>>), Undefined,
         Arr(<<Str(<<"G2">>), Str(<<"G3">>)>>),
         Arr(<<Helper("hint", "yaml", <<>>), Helper("lint", "yaml", <<>>)>>),
         Bool(FALSE)),
     Ext(Undefined, Arr(<<Str(<<"c">>)>>), Undefined,
         Obj(Helper("hint", "yaml", <<>>)), Undefined),
     Ext(Undefined, Undefined, Str(<<"G4">>),
         Obj(Helper("lint", "python", <<>>)), Bool(TRUE))}

RegisterLists == {Tag(l) : l \in SeqsUpTo(RegisterExts, MaxExts)}

\* a call of the exported appendHelpers on the widget's helper table, which
\* every editor of the page shares
AppendHelpersCall(exts) ==
    /\ helperTable' = AppendHelpers(helperTable, exts)
    /\ lastCall' = [fn |-> "appendHelpers", exts |-> exts]
    /\ UNCHANGED <<extensions, filename, theme, editor>>

\* repeated registration on one helper table
InitRegister ==
    /\ extensions = <<>>
    /\ filename = Str(<<>>)
    /\ theme = "light"
    /\ editor = NoEditor
    /\ helperTable = NoHelpers
    /\ lastCall = NoCall

NextRegister == \E exts \in RegisterLists : AppendHelpersCall(exts)

SpecRegister == InitRegister /\ [][NextRegister]_vars

\* appendHelpers at the mount of an editor, over the lists of helpers
InitGroup ==
    /\ extensions \in GroupLists
    /\ filename = Str(<<"c">>)
    /\ theme = "light"
    /\ editor = NoEditor
    /\ helperTable = NoHelpers
    /\ lastCall = NoCall

NextGroup == MountEditor

SpecGroup == InitGroup /\ [][NextGroup]_vars

\* the Result Mergers over the lists of per-callback results
InitMerge ==
    /\ extensions = <<>>
    /\ filename = Str(<<>>)
    /\ theme = "light"
    /\ editor = NoEditor
    /\ helperTable = NoHelpers
    /\ lastCall = NoCall

NextMerge ==
    /\ lastCall = NoCall
    /\ \E type \in HelperTypes :
           \E returns \in ReturnsLists(type) : MergeCall(type, returns)

SpecMerge == InitMerge /\ [][NextMerge]_vars

-----------------------------------------------------------------------------
\* Vocabulary of the properties.

\* the strings a fileName / extension field declares
DeclaredNames(arrayable) ==
    IF arrayable.t = "array"
    THEN {arrayable.v[i].v : i \in 1..Len(arrayable.v)}
    ELSE {arrayable.v}

\* the one Extension of a SpecMatch session, and whether the editor shows it
\* applied: its gutter is the editor's gutter list and spellcheck is on
TheExtension == extensions[1]

Applied ==
    /\ editor.init
    /\ editor.opts.gutters = <<Str(<<"G1">>)>>
    /\ editor.opts.spellcheck

\* lower case of a string
Lowered(s) == [i \in 1..Len(s) |-> IF s[i] = "C" THEN "c" ELSE s[i]]

\* the lower-cased text after the last dot; the whole lower-cased name when
\* the name has no dot
SuffixOrWholeName(s) ==
    LET dots == {i \in 1..Len(s) : s[i] = "."}
        last == IF dots = {} THEN 0 ELSE CHOOSE i \in dots : \A j \in dots : j <= i
    IN  Lowered(SubSeq(s, last + 1, Len(s)))

\* the lower-cased text after the last dot; the empty string when the name
\* has no dot
SuffixOrEmpty(s) ==
    IF \A i \in 1..Len(s) : s[i] # "." THEN <<>> ELSE SuffixOrWholeName(s)

\* the positions <<i, j>> of the Helpers a list declares with the pair
\* (type, fileType)
DeclaredIn(exts, type, fileType) ==
    UNION {{<<i, j>> : j \in {j \in 1..Len(HelpersOf(exts[i])) :
                                /\ HelpersOf(exts[i])[j].type = type
                                /\ HelpersOf(exts[i])[j].fileType = fileType}} :
           i \in {i \in 1..Len(exts) : Truthy(exts[i].helpers)}}

DeclaredFor(type, fileType) == DeclaredIn(extensions, type, fileType)

\* the Extension applies to the filename: by its declared names when it has
\* fileName, else by the suffix of a filename that is not empty
ApplicableTo(extension, fname) ==
    IF IsDefined(extension.fileName)
    THEN fname.v \in DeclaredNames(extension.fileName)
    ELSE /\ IsDefined(extension.extension)
         /\ fname.v # <<>>
         /\ SuffixOrWholeName(fname.v) \in DeclaredNames(extension.extension)

\* the gutters an Extension declares, as a list
DeclaredGutters(extension) ==
    CASE extension.gutters.t = "array" -> extension.gutters.v
      [] extension.gutters.t = "string" /\ extension.gutters.v # <<>> ->
            <<extension.gutters>>
      [] OTHER -> <<>>

\* the gutters of the Extensions of a list that apply to a filename, in the
\* order of the list
RECURSIVE GuttersFor(_, _)
GuttersFor(exts, fname) ==
    IF Len(exts) = 0 THEN <<>>
    ELSE (IF ApplicableTo(exts[1], fname) THEN DeclaredGutters(exts[1]) ELSE <<>>)
             \o GuttersFor(SubSeq(exts, 2, Len(exts)), fname)

\* some Extension that applies to the filename has spellCheck true
SpellcheckFor(exts, fname) ==
    \E i \in 1..Len(exts) :
        /\ ApplicableTo(exts[i], fname)
        /\ exts[i].spellCheck.t = "boolean"
        /\ exts[i].spellCheck.v

\* position p comes before position q: an earlier Extension, or the same
\* Extension and an earlier Helper
Before(p, q) == p[1] < q[1] \/ (p[1] = q[1] /\ p[2] < q[2])

\* an Extension with neither fileName nor extension
Inert(extension) == ~IsDefined(extension.fileName) /\ ~IsDefined(extension.extension)

\* what one per-callback result contributes to the merged list: nothing when
\* it is the no-result sentinel
Contribution(type, result) ==
    IF ~IsDefined(result) THEN <<>>
    ELSE IF type = "lint" THEN result.v ELSE result.v.list

\* the contributions of a list of results, one after the other
RECURSIVE Flattened(_, _)
Flattened(type, returns) ==
    IF Len(returns) = 0 THEN <<>>
    ELSE Flattened(type, SubSeq(returns, 1, Len(returns) - 1))
             \o Contribution(type, returns[Len(returns)])

\* the index of the first result that is not the sentinel
FirstDefined(returns) ==
    CHOOSE k \in 1..Len(returns) :
        IsDefined(returns[k]) /\ \A l \in 1..(k - 1) : ~IsDefined(returns[l])

\* the dispatcher ran its whole group and reached the merge step
MapCompleted == Len(lastCall.ran) = Len(lastCall.returns)

-----------------------------------------------------------------------------
\* Properties.

\* C1 (as claimed): whenever a dispatcher is invoked, the filename the guards
\* of its wrapped callbacks test is the session's active filename, and an
\* underlying callback runs iff its Extension's condition matches that file.
C1_GuardTestsActiveFilename ==
    lastCall.fn = "dispatch" =>
        LET callbacks == helperTable[<<lastCall.type, lastCall.fileType>>].callbacks
        IN  \A k \in 1..Len(lastCall.ran) :
                IsDefined(callbacks[k]) =>
                    /\ StrictEq(lastCall.tested, filename)
                    /\ lastCall.ran[k] <=> GuardPasses(callbacks[k], filename)

\* C2 (as claimed): for every Extension and filename, the guard of the
\* Extension's wrapped callback passes iff appendExtensions applied the
\* Extension to that filename.
C2_GuardAgreesWithApplicator ==
    (/\ lastCall.fn = "dispatch"
     /\ IsDefined(helperTable[<<lastCall.type, lastCall.fileType>>].callbacks[1])
     /\ StrictEq(lastCall.tested, filename)) =>
        (lastCall.ran[1] <=> Applied)

\* C3 (as claimed): an Extension with neither fileName nor extension is never
\* applied, and a dispatcher whose group holds one of its helpers does not
\* raise on it.
C3_InertExtensionNeverThrows ==
    /\ editor.init =>
           \A i \in 1..Len(extensions) :
               (Inert(extensions[i]) /\ Truthy(extensions[i].gutters)) =>
                   \A g \in 1..Len(editor.opts.gutters) :
                       ~ArrayIncludes(Arrayify(extensions[i].gutters),
                                      editor.opts.gutters[g])
    /\ lastCall.fn = "dispatch" =>
           \A p \in DeclaredFor(lastCall.type, lastCall.fileType) :
               Inert(extensions[p[1]]) => lastCall.end # Throw("TypeError")

\* C4 (as claimed): a hint dispatch whose wrapped callbacks all return the
\* no-result sentinel does not raise.
C4_HintDispatchWithoutContributors ==
    (/\ lastCall.fn = "dispatch"
     /\ lastCall.type = "hint"
     /\ MapCompleted
     /\ \A k \in 1..Len(lastCall.returns) : ~IsDefined(lastCall.returns[k])) =>
        lastCall.end.outcome = "return"

\* C5: an Extension with fileName set is applied to a filename iff the
\* filename is, symbol for symbol, one of the declared names; its extension
\* field is not consulted.
C5_FileNameMatchIsExact ==
    (editor.init /\ IsDefined(TheExtension.fileName)) =>
        (Applied <=> filename.v \in DeclaredNames(TheExtension.fileName))

C5_Witness ==
    /\ editor.init
    /\ TheExtension.fileName = Arr(<<Str(<<"c">>), Str(<<"C">>)>>)
    /\ TheExtension.extension = Str(<<"c">>)
    /\ filename = Str(<<"C">>)
    /\ Applied

\* C6 (as claimed): an Extension with extension set and fileName unset is
\* applied to a filename, the empty one included, iff the lower-cased text
\* after the last dot (the empty string if there is no dot) is one of the
\* declared extensions.
C6_SuffixOrEmptyDecides ==
    (editor.init /\ ~IsDefined(TheExtension.fileName)
                 /\ IsDefined(TheExtension.extension)) =>
        (Applied <=> SuffixOrEmpty(filename.v) \in DeclaredNames(TheExtension.extension))

\* C6 (amended): such an Extension is applied iff the filename is not empty
\* and the lower-cased text after its last dot (the whole lower-cased name if
\* it has no dot) is one of the declared extensions, compared as declared.
C6_ExtensionMatch ==
    (editor.init /\ ~IsDefined(TheExtension.fileName)
                 /\ IsDefined(TheExtension.extension)) =>
        (Applied <=>
            /\ filename.v # <<>>
            /\ SuffixOrWholeName(filename.v) \in DeclaredNames(TheExtension.extension))

C6_Witness ==
    /\ editor.init
    /\ ~IsDefined(TheExtension.fileName)
    /\ TheExtension.extension = Arr(<<Str(<<"C">>), Str(<<"c">>)>>)
    /\ filename = Str(<<".", ".", "C">>)
    /\ Applied

\* C7 (as claimed): getExtension returns a string for every filename: the
\* lower-cased text after the last dot, the whole lower-cased name when there
\* is no dot, the empty string for the empty filename.
C7_GetExtensionTotal ==
    lastCall.fn = "getExtension" =>
        /\ lastCall.end.outcome = "return"
        /\ lastCall.end.value = Str(SuffixOrWholeName(lastCall.arg.v))

\* C7 (amended): getExtension returns undefined for the empty filename and,
\* for every other filename, the lower-cased text after the last dot, which
\* is the whole lower-cased name when there is no dot.
C7_GetExtension ==
    lastCall.fn = "getExtension" =>
        /\ lastCall.end.outcome = "return"
        /\ lastCall.end.value =
               IF lastCall.arg.v = <<>> THEN Undefined
               ELSE Str(SuffixOrWholeName(lastCall.arg.v))

C7_Witness ==
    /\ lastCall.fn = "getExtension"
    /\ lastCall.arg = Str(<<"c", ".", "C">>)
    /\ lastCall.end = Return(Str(<<"c">>))

\* C8: after appendHelpers the group of every (type, fileType) pair holds one
\* wrapped callback per Helper declared with that pair, no more and no fewer,
\* in the order of the declaring Extensions and, within an Extension, of its
\* helpers list; a pair is registered iff some Helper declares it.
C8_GroupingKeepsAllInOrder ==
    editor.init =>
        \A key \in HelperTypes \X FileTypes :
            LET callbacks == helperTable[key].callbacks
                declared == DeclaredFor(key[1], key[2])
            IN  /\ helperTable[key].registered <=> declared # {}
                /\ Len(callbacks) = Cardinality(declared)
                /\ \A k \in 1..Len(callbacks) : callbacks[k].v.func \in declared
                /\ \A k, l \in 1..Len(callbacks) :
                       k < l => Before(callbacks[k].v.func, callbacks[l].v.func)

C8_Witness ==
    /\ editor.init
    /\ Len(extensions) = 2
    /\ Len(helperTable[<<"lint", "yaml">>].callbacks) = 4
    /\ Len(helperTable[<<"hint", "yaml">>].callbacks) = 0

\* C9: Lint merge returns the concatenation, in callback order, of the lists
\* that are not the sentinel, and the empty list when there is none; it never
\* raises.
C9_LintMergeConcatenates ==
    (lastCall.fn = "merge" /\ lastCall.type = "lint") =>
        lastCall.end = Return(Arr(Flattened("lint", lastCall.returns)))

C9_Witness ==
    /\ lastCall.fn = "merge"
    /\ lastCall.type = "lint"
    /\ lastCall.returns = <<Arr(<<"m2">>), Undefined, Arr(<<"m1">>)>>
    /\ lastCall.end = Return(Arr(<<"m2", "m1">>))

\* C10: Hint merge of a list with a result that is not the sentinel returns
\* the concatenation, in callback order, of the list fields of those results
\* with the from/to of the first of them; a single contributing result is
\* returned as it is.
C10_HintMergeFirstAnchor ==
    (/\ lastCall.fn = "merge"
     /\ lastCall.type = "hint"
     /\ \E k \in 1..Len(lastCall.returns) : IsDefined(lastCall.returns[k])) =>
        LET first == lastCall.returns[FirstDefined(lastCall.returns)]
        IN  /\ lastCall.end = Return(Hint(Flattened("hint", lastCall.returns),
                                          first.v.from, first.v.to))
            /\ Len(FilterDefined(lastCall.returns)) = 1 => lastCall.end = Return(first)

C10_Witness ==
    /\ lastCall.fn = "merge"
    /\ lastCall.type = "hint"
    /\ lastCall.returns = <<Undefined, Hint(<<"a">>, Pos(0, 0), Pos(0, 1)),
                            Hint(<<"b">>, Pos(1, 0), Pos(1, 2))>>
    /\ lastCall.end = Return(Hint(<<"a", "b">>, Pos(0, 0), Pos(0, 1)))

\* C11: once the editor exists its options are those of the last
\* appendExtensions call alone: gutters is the concatenation, in Extension
\* order with duplicates kept, of the gutters of the Extensions that apply to
\* the active filename, spellcheck is on iff one of them has spellCheck true,
\* and lint is on.
C11_OptionsOfLastCall ==
    editor.init =>
        /\ editor.opts.gutters = GuttersFor(extensions, filename)
        /\ editor.opts.spellcheck <=> SpellcheckFor(extensions, filename)
        /\ editor.opts.lint

C11_Witness ==
    /\ editor.init
    /\ Len(extensions) = 2
    /\ filename = Str(<<"C", ".", "c">>)
    /\ editor.opts.gutters = <<Str(<<"G1">>), Str(<<"G2">>), Str(<<"G3">>)>>
    /\ editor.opts.spellcheck
    /\ extensions[2].spellCheck = Bool(FALSE)

\* the three options appendExtensions sets, as a snapshot shows them
Applied3(opts) == <<opts.gutters, opts.lint, opts.spellcheck>>

\* C12: whatever the editor, or a handler it runs, sees of
\* gutters, lint and spellcheck during the applicator's update is the previous
\* configuration or the new one, never a mix of both.
C12_UpdateIsAtomic ==
    (lastCall.fn = "handler" /\ Len(lastCall.seen) > 0) =>
        \A k \in 1..Len(lastCall.seen) :
            \/ Applied3(lastCall.seen[k]) = Applied3(lastCall.before)
            \/ Applied3(lastCall.seen[k]) = Applied3(lastCall.seen[Len(lastCall.seen)])

\* what the three setOption calls do: after the first the editor has the new
\* gutters with the previous lint and spellcheck, after the second the new
\* gutters and lint on with the previous spellcheck, after the third all
\* three new, which is what the editor holds once the handler has returned
AppliedInThreeSteps ==
    (lastCall.fn = "handler" /\ Len(lastCall.calls) > 0) =>
        LET gutters == GuttersFor(extensions, filename)
            spellcheck == SpellcheckFor(extensions, filename)
            before == lastCall.before
        IN  /\ Len(lastCall.seen) = 3
            /\ Applied3(lastCall.seen[1]) = <<gutters, before.lint, before.spellcheck>>
            /\ Applied3(lastCall.seen[2]) = <<gutters, TRUE, before.spellcheck>>
            /\ Applied3(lastCall.seen[3]) = <<gutters, TRUE, spellcheck>>
            /\ Applied3(editor.opts) = Applied3(lastCall.seen[3])

\* C13: appendHelpers is called by the run of the element watcher that
\* creates the editor, ahead of appendExtensions, and by no other step: a
\* later run of that watcher calls nothing, a filename or theme change calls
\* appendExtensions alone, and no step changes the helper table once the
\* editor exists.
C13_HelpersRegisteredOnce ==
    [][/\ editor.init => helperTable' = helperTable
       /\ lastCall'.fn = "handler" =>
              IF ~editor.init
              THEN lastCall'.calls = <<"appendHelpers", "appendExtensions">>
              ELSE IF filename' # filename \/ theme' # theme
                   THEN lastCall'.calls = <<"appendExtensions">>
                   ELSE lastCall'.calls = <<>>]_vars

C13_Witness ==
    /\ editor.init
    /\ lastCall.fn = "handler"
    /\ lastCall.calls = <<"appendExtensions">>
    /\ ~StrictEq(filename, editor.opts.filename)
    /\ helperTable[<<"lint", "yaml">>].registered
    /\ helperTable = AppendHelpers(NoHelpers, extensions)

\* the wrapped callbacks of the group the last dispatch ran
GroupOfLastCall == helperTable[<<lastCall.type, lastCall.fileType>>].callbacks

\* one dispatcher is registered for exactly the pairs the Extension list
\* declares, over one wrapped callback per declaring Helper
OneDispatcherPerPair ==
    editor.init =>
        \A type \in HelperTypes : \A fileType \in FileTypes :
            /\ helperTable[<<type, fileType>>].registered
                   <=> DeclaredFor(type, fileType) # {}
            /\ Len(helperTable[<<type, fileType>>].callbacks)
                   = Cardinality(DeclaredFor(type, fileType))

\* C14 (as claimed): one dispatcher per declared pair, and every invocation of
\* it over a group of wrapped callbacks calls each of them once, in order,
\* and then ends as the merger ends on the full list of their results.
C14_DispatchRunsWholeGroup ==
    /\ OneDispatcherPerPair
    /\ (/\ lastCall.fn = "dispatch"
        /\ \A k \in 1..Len(GroupOfLastCall) : IsDefined(GroupOfLastCall[k])) =>
           /\ Len(lastCall.ran) = Len(GroupOfLastCall)
           /\ Len(lastCall.returns) = Len(GroupOfLastCall)
           /\ lastCall.end = HelperMergers(lastCall.type, lastCall.returns)

\* C14 (amended): one dispatcher per declared pair; an invocation in which no
\* call raises calls every entry of the group once, in order, and ends as the
\* merger ends on the full list of results, sentinels included; an invocation
\* in which a call raises stops there: the entries before it were called and
\* returned, the entries after it are not called, nothing is merged and the
\* invocation ends with what that call raised.
C14_DispatchRunsUntilRaise ==
    /\ OneDispatcherPerPair
    /\ lastCall.fn = "dispatch" =>
           LET n == Len(GroupOfLastCall)
               called == Len(lastCall.ran)
               returned == Len(lastCall.returns)
           IN  IF returned = called
               THEN /\ called = n
                    /\ \A k \in 1..n :
                           lastCall.returns[k] = Undefined
                               <=> ~GuardPasses(GroupOfLastCall[k], lastCall.tested)
                    /\ lastCall.end = HelperMergers(lastCall.type, lastCall.returns)
               ELSE /\ returned + 1 = called
                    /\ called <= n
                    /\ lastCall.end.outcome = "throw"
                    /\ lastCall.end \in {Throw("CallbackError"), Throw("TypeError")}

C14_Witness ==
    /\ lastCall.fn = "dispatch"
    /\ lastCall.type = "lint"
    /\ Len(GroupOfLastCall) = 2
    /\ lastCall.ran = <<FALSE, TRUE>>
    /\ lastCall.returns = <<Undefined, Arr(<<"m1">>)>>
    /\ lastCall.end = Return(Arr(<<"m1">>))

\* C15: when an underlying callback raises during a dispatch, the dispatch
\* ends with what it raised and with no merged result; a dispatch that returns
\* has a result from every entry of its group, and in no dispatch is the
\* sentinel the result of an entry whose underlying callback ran.
C15_CallbackFailureReachesCaller ==
    lastCall.fn = "dispatch" =>
        /\ (Len(lastCall.ran) > Len(lastCall.returns)
              /\ lastCall.ran[Len(lastCall.ran)]) =>
               lastCall.end = Throw("CallbackError")
        /\ lastCall.end.outcome = "return" =>
               /\ Len(lastCall.returns) = Len(GroupOfLastCall)
               /\ \A k \in 1..Len(lastCall.returns) :
                      lastCall.ran[k] =>
                          Return(lastCall.returns[k]) \in Behaviours(lastCall.type)
        /\ \A k \in 1..Len(lastCall.returns) :
               lastCall.returns[k] = Undefined => ~lastCall.ran[k]

C15_Witness ==
    /\ lastCall.fn = "dispatch"
    /\ lastCall.type = "lint"
    /\ lastCall.ran = <<TRUE, TRUE>>
    /\ lastCall.returns = <<Arr(<<"m2">>)>>
    /\ lastCall.end = Throw("CallbackError")

\* the k-th, in list order, of a set of Helper positions
Kth(declared, k) ==
    CHOOSE p \in declared :
        Cardinality({q \in declared : Before(q, p)}) = k - 1

\* C16: a call of appendHelpers leaves, for every pair its Extension list
\* declares, a dispatcher over exactly the wrapped callbacks of that list, in
\* order, whatever the table held before, and leaves every other pair as it
\* was; a call with the list of the call before it leaves the table, and so
\* every dispatch, as it was.
C16_ReRegistrationOverwrites ==
    [][lastCall'.fn = "appendHelpers" =>
          /\ \A key \in HelperTypes \X FileTypes :
                 LET declared == DeclaredIn(lastCall'.exts, key[1], key[2])
                     callbacks == helperTable'[key].callbacks
                 IN  IF declared = {}
                     THEN helperTable'[key] = helperTable[key]
                     ELSE /\ helperTable'[key].registered
                          /\ Len(callbacks) = Cardinality(declared)
                          /\ \A k \in 1..Len(callbacks) :
                                 callbacks[k] =
                                     CreateWrapperFunction(
                                         lastCall'.exts[Kth(declared, k)[1]],
                                         Kth(declared, k))
          /\ (lastCall.fn = "appendHelpers" /\ lastCall'.exts = lastCall.exts) =>
                 helperTable' = helperTable]_vars

C16_Witness ==
    /\ lastCall.fn = "appendHelpers"
    /\ Len(lastCall.exts) = 1
    /\ DeclaredIn(lastCall.exts, "lint", "yaml") = {}
    /\ DeclaredIn(lastCall.exts, "hint", "yaml") = {<<1, 1>>}
    /\ Len(helperTable[<<"lint", "yaml">>].callbacks) = 2
    /\ Len(helperTable[<<"hint", "yaml">>].callbacks) = 1
    /\ helperTable[<<"hint", "yaml">>].callbacks[1].v.by = "extension"

=============================================================================
